---- MODULE Spec2Model ----
(***************************************************************************)
(* Model of git_diff_files.py: a click command that lists the files that   *)
(* differ between two git references.                                      *)
(*                                                                         *)
(* Text is modelled as sequences of one-character strings.  A line of a    *)
(* standard stream is a sequence of tokens: the literal fragments of the   *)
(* format string and, for interpolated paths, their characters.            *)
(* An Optional value is <<>> (None) or <<v>>.                              *)
(***************************************************************************)
EXTENDS Integers, Sequences, FiniteSets, TLC

\* Longest standard output of `git diff --name-only` the model enumerates.
MaxLen == 4

\* Characters of the backend's output: two name characters, blank, newline.
Chars == {"a", "b", " ", "\n"}

\* Reference strings given on the command line.
Refs == {"v1", "v2"}

\* Values of --pattern: absent, the empty string, a glob.
Patterns == {<<>>, <<"">>, <<"*.py">>}

\* Values of --output: absent, the empty string, a path with a parent directory.
Outputs == {<<>>, <<"">>, <<"out/files.txt">>}

\* Content of a file already present at the output path.
OldContent == <<"b", "\n">>

\* All texts the backend may print.
Stdouts == UNION {[1..n -> Chars] : n \in 0..MaxLen}

Min(S) == CHOOSE x \in S : \A y \in S : x <= y
Max(S) == CHOOSE x \in S : \A y \in S : x >= y

----------------------------------------------------------------------------
(* Python built-ins used by the program *)

\* bool(x) of an Optional[str]: None and "" are falsy.
Truthy(opt) == opt # <<>> /\ opt[1] # ""

\* str.splitlines(): break at every line boundary; no empty piece after a
\* final newline.
RECURSIVE splitlines(_)
splitlines(s) ==
    IF s = <<>> THEN <<>>
    ELSE LET nl == {i \in 1..Len(s) : s[i] = "\n"} IN
         IF nl = {} THEN <<s>>
         ELSE <<SubSeq(s, 1, Min(nl) - 1)>>
                \o splitlines(SubSeq(s, Min(nl) + 1, Len(s)))

\* str.strip(): remove leading and trailing whitespace.
strip(s) ==
    LET keep == {i \in 1..Len(s) : s[i] \notin {" ", "\n"}} IN
    IF keep = {} THEN <<>> ELSE SubSeq(s, Min(keep), Max(keep))

\* "\n".join(xs)
RECURSIVE join(_)
join(xs) ==
    IF xs = <<>> THEN <<>>
    ELSE IF Len(xs) = 1 THEN xs[1]
    ELSE xs[1] \o <<"\n">> \o join(Tail(xs))

\* str(n) of a natural number.
Digits == <<"0", "1", "2", "3", "4", "5", "6", "7", "8", "9">>
RECURSIVE str(_)
str(n) == IF n < 10 THEN Digits[n + 1] ELSE str(n \div 10) \o Digits[(n % 10) + 1]

----------------------------------------------------------------------------
(* Command lines handed to subprocess.run *)

GitDirCmd == <<"git", "rev-parse", "--git-dir">>
VerifyCmd(ref) == <<"git", "rev-parse", "--verify", ref>>

DiffCmdAlwaysAppend(base, head, file_pattern) ==
    <<"git", "diff", "--name-only", base, head>>
        \o (IF file_pattern # <<>> THEN <<"--", file_pattern[1]>> ELSE <<>>)

\* get_changed_files, lines 52-55
DiffCmd(base, head, file_pattern) ==
    <<"git", "diff", "--name-only", base, head>>
        \o (IF Truthy(file_pattern) THEN <<"--", file_pattern[1]>> ELSE <<>>)

ParseLinesNoStrip(out) == SelectSeq(splitlines(out), LAMBDA f : f # <<>>)

ParseLinesReversed(out) ==
    LET ls == splitlines(out)
        st == SelectSeq([i \in 1..Len(ls) |-> strip(ls[i])], LAMBDA f : f # <<>>)
    IN  [i \in 1..Len(st) |-> st[Len(st) + 1 - i]]

\* get_changed_files, line 58: [f.strip() for f in stdout.splitlines() if f.strip()]
ParseLines(out) ==
    LET ls == splitlines(out) IN
    SelectSeq([i \in 1..Len(ls) |-> strip(ls[i])], LAMBDA f : f # <<>>)

----------------------------------------------------------------------------
(* Lines the program prints *)

NotRepoLine == <<"Error: Not a git repository">>
InvalidRefLine(ref) == <<"Error: Invalid git reference '", ref, "'">>
HintLine == <<"Note: Make sure you're in the correct repository and the reference exists">>
NoChangesLine == <<"No changes found between the specified references.">>
CountLine(n) == <<"Found ", str(n), " changed files:">>
Indent == <<" ", " ", "-", " ">>
PathLine(file) == Indent \o file
WrittenLines(path) == << <<>>, <<"Written output to: ", path>> >>
GitFailedLine == <<"Error: Git command failed: ", "<captured stderr>">>
GenericErrorLine == <<"Error: ", "<str(e)>">>
\* printed by click when the command raises click.Abort
AbortedLine == <<"Aborted!">>
\* printed by the interpreter for an exception nobody caught
TracebackLine == <<"Traceback (most recent call last):">>

PathLines(files) == [i \in 1..Len(files) |-> PathLine(files[i])]

FileTextNoSeparator(files) ==
    LET RECURSIVE cat(_)
        cat(xs) == IF xs = <<>> THEN <<>> ELSE xs[1] \o cat(Tail(xs))
    IN  cat(files) \o <<"\n">>

\* main, line 110: "\n".join(changed_files) + "\n"
FileText(files) == join(files) \o <<"\n">>

----------------------------------------------------------------------------
(* Program state *)

VARIABLES
    base_ref, head_ref, pattern, output,  \* arguments of main
    inRepo,        \* the working directory is inside a repository
    validRefs,     \* the references that resolve in it
    fs,            \* output path: parent directories exist, Optional file content
    pc,            \* position in main
    calls,         \* command lines run so far, in order
    result,        \* Optional stdout of the diff command (result.stdout)
    changed_files, \* Optional list returned by get_changed_files
    stdout, stderr,\* lines written to the standard streams
    termination,   \* how the process ended
    exitStatus     \* exit status of the process, -1 while running

args == <<base_ref, head_ref, pattern, output>>
env == <<inRepo, validRefs>>
vars == <<base_ref, head_ref, pattern, output, inRepo, validRefs, fs, pc, calls,
          result, changed_files, stdout, stderr, termination, exitStatus>>

Init ==
    /\ base_ref \in Refs
    /\ head_ref \in Refs
    /\ pattern \in Patterns
    /\ output \in Outputs
    /\ inRepo \in BOOLEAN
    /\ validRefs \in SUBSET Refs
    /\ fs \in {[dirs |-> FALSE, file |-> <<>>],
               [dirs |-> TRUE, file |-> <<>>],
               [dirs |-> TRUE, file |-> <<OldContent>>]}
    /\ pc = "start"
    /\ calls = <<>>
    /\ result = <<>>
    /\ changed_files = <<>>
    /\ stdout = <<>>
    /\ stderr = <<>>
    /\ termination = "running"
    /\ exitStatus = -1

----------------------------------------------------------------------------
(* Process termination *)

\* sys.exit(1), lines 79, 87, 94
ValidationFailureStatus == 1

\* Exit status of each way main can end when run by click in standalone mode:
\* a normal return exits 0, click.Abort exits 1 after printing "Aborted!",
\* an uncaught exception ends the interpreter with status 1.
ExitStatus(term) ==
    CASE term = "return"  -> 0
      [] term = "sysexit" -> ValidationFailureStatus
      [] term = "abort"   -> 1
      [] term = "crash"   -> 1

\* What the runtime adds to stderr when main ends this way.
RuntimeLines(term) ==
    CASE term = "abort" -> <<AbortedLine>>
      [] term = "crash" -> <<TracebackLine>>
      [] OTHER          -> <<>>

Finish(term, outLines, errLines) ==
    /\ pc' = "done"
    /\ termination' = term
    /\ exitStatus' = ExitStatus(term)
    /\ stdout' = stdout \o outLines
    /\ stderr' = stderr \o errLines \o RuntimeLines(term)

ExceptClauseSwallow(exc) ==
    [line |-> IF exc = "CalledProcessError" THEN GitFailedLine ELSE GenericErrorLine,
     term |-> "return"]

\* main, lines 113-118: the two except clauses of the try block
ExceptClause(exc) ==
    [line |-> IF exc = "CalledProcessError" THEN GitFailedLine ELSE GenericErrorLine,
     term |-> "abort"]

----------------------------------------------------------------------------
(* The backend *)

\* Outcomes of subprocess.run(..., check=True) for a command that would
\* succeed or not: the command may also fail to start at all.
RunOutcomes(succeeds) == {"oserror", IF succeeds THEN "ok" ELSE "nonzero"}

\* is_git_repo and validate_git_ref catch CalledProcessError only.
is_git_repo(o) ==
    CASE o = "ok" -> "True" [] o = "nonzero" -> "False" [] o = "oserror" -> "raise"

validate_git_ref(o) ==
    CASE o = "ok" -> "True" [] o = "nonzero" -> "False" [] o = "oserror" -> "raise"

DiffOutcomes ==
    {[kind |-> "nonzero", out |-> <<>>], [kind |-> "oserror", out |-> <<>>]}
        \cup {[kind |-> "ok", out |-> s] : s \in Stdouts}

----------------------------------------------------------------------------
(* main *)

CheckRepoNoExit ==
    /\ pc = "start"
    /\ \E o \in RunOutcomes(inRepo) :
         /\ calls' = Append(calls, GitDirCmd)
         /\ CASE is_git_repo(o) = "True" ->
                   /\ pc' = "validate_base"
                   /\ UNCHANGED <<stdout, stderr, termination, exitStatus>>
              [] is_git_repo(o) = "False" ->
                   /\ pc' = "validate_base"
                   /\ stderr' = Append(stderr, NotRepoLine)
                   /\ UNCHANGED <<stdout, termination, exitStatus>>
              [] is_git_repo(o) = "raise" -> Finish("crash", <<>>, <<>>)
    /\ UNCHANGED <<args, env, fs, result, changed_files>>

\* lines 77-79
CheckRepo ==
    /\ pc = "start"
    /\ \E o \in RunOutcomes(inRepo) :
         /\ calls' = Append(calls, GitDirCmd)
         /\ CASE is_git_repo(o) = "True" ->
                   /\ pc' = "validate_base"
                   /\ UNCHANGED <<stdout, stderr, termination, exitStatus>>
              [] is_git_repo(o) = "False" ->
                   Finish("sysexit", <<>>, <<NotRepoLine>>)
              [] is_git_repo(o) = "raise" -> Finish("crash", <<>>, <<>>)
    /\ UNCHANGED <<args, env, fs, result, changed_files>>

\* One reference validation: lines 82-87 for base_ref, 89-94 for head_ref.
Validate(ref, next) ==
    \E o \in RunOutcomes(ref \in validRefs) :
         /\ calls' = Append(calls, VerifyCmd(ref))
         /\ CASE validate_git_ref(o) = "True" ->
                   /\ pc' = next
                   /\ UNCHANGED <<stdout, stderr, termination, exitStatus>>
              [] validate_git_ref(o) = "False" ->
                   Finish("sysexit", <<HintLine>>, <<InvalidRefLine(ref)>>)
              [] validate_git_ref(o) = "raise" -> Finish("crash", <<>>, <<>>)

ValidateBaseHeadFirst ==
    /\ pc = "validate_base"
    /\ Validate(head_ref, "validate_head")
    /\ UNCHANGED <<args, env, fs, result, changed_files>>

\* lines 82-87
ValidateBase ==
    /\ pc = "validate_base"
    /\ Validate(base_ref, "validate_head")
    /\ UNCHANGED <<args, env, fs, result, changed_files>>

\* lines 89-94
ValidateHead ==
    /\ pc = "validate_head"
    /\ Validate(head_ref, "collect")
    /\ UNCHANGED <<args, env, fs, result, changed_files>>

EarlyReturnNever(files) == FALSE

\* line 99: if not changed_files
EarlyReturn(files) == files = <<>>

\* lines 96-105 and the except clauses: run the comparison, print the result
Collect ==
    /\ pc = "collect"
    /\ \E o \in DiffOutcomes :
         /\ calls' = Append(calls, DiffCmd(base_ref, head_ref, pattern))
         /\ IF o.kind = "ok"
            THEN LET files == ParseLines(o.out)
                     listing == <<CountLine(Len(files))>> \o PathLines(files)
                 IN  /\ result' = <<o.out>>
                     /\ changed_files' = <<files>>
                     /\ IF EarlyReturn(files)
                        THEN Finish("return", <<NoChangesLine>>, <<>>)
                        ELSE IF Truthy(output)
                        THEN /\ pc' = "write"
                             /\ stdout' = stdout \o listing
                             /\ UNCHANGED <<stderr, termination, exitStatus>>
                        ELSE Finish("return", listing, <<>>)
            ELSE LET h == ExceptClause(IF o.kind = "nonzero"
                                       THEN "CalledProcessError" ELSE "OSError")
                 IN  /\ Finish(h.term, <<>>, <<h.line>>)
                     /\ UNCHANGED <<result, changed_files>>
    /\ UNCHANGED <<args, env, fs>>

\* lines 107-111 and the except clauses: create the directories, write the file
WriteOutput ==
    /\ pc = "write"
    /\ LET text == FileText(changed_files[1])
           h == ExceptClause("OSError")
       IN  \/ /\ fs' = [dirs |-> TRUE, file |-> <<text>>]
              /\ Finish("return", WrittenLines(output[1]), <<>>)
           \/ /\ ~fs.dirs                    \* mkdir fails
              /\ fs' = fs
              /\ Finish(h.term, <<>>, <<h.line>>)
           \/ /\ fs' = [fs EXCEPT !.dirs = TRUE]   \* the file cannot be opened
              /\ Finish(h.term, <<>>, <<h.line>>)
           \/ \E k \in 0..(Len(text) - 1) :  \* the write stops after k characters
                 /\ fs' = [dirs |-> TRUE, file |-> <<SubSeq(text, 1, k)>>]
                 /\ Finish(h.term, <<>>, <<h.line>>)
    /\ UNCHANGED <<args, env, calls, result, changed_files>>

Next == CheckRepo \/ ValidateBase \/ ValidateHead \/ Collect \/ WriteOutput

Spec == Init /\ [][Next]_vars

----------------------------------------------------------------------------
(* What the properties refer to *)

\* The non-blank lines of a text, trimmed, in order: the text is read one
\* character at a time, a line ends at each newline and at the end.
RECURSIVE TrimLeft(_)
TrimLeft(s) == IF s # <<>> /\ s[1] = " " THEN TrimLeft(Tail(s)) ELSE s

RECURSIVE TrimRight(_)
TrimRight(s) ==
    IF s # <<>> /\ s[Len(s)] = " " THEN TrimRight(SubSeq(s, 1, Len(s) - 1)) ELSE s

Flush(cur) == IF TrimRight(TrimLeft(cur)) = <<>> THEN <<>> ELSE <<TrimRight(TrimLeft(cur))>>

RECURSIVE Scan(_, _)
Scan(s, cur) ==
    IF s = <<>> THEN Flush(cur)
    ELSE IF s[1] = "\n" THEN Flush(cur) \o Scan(Tail(s), <<>>)
    ELSE Scan(Tail(s), Append(cur, s[1]))

BackendPaths(text) == Scan(text, <<>>)

\* The paths listed on standard output: the lines that start with the indent
\* marker, without it.
IsPathLine(l) == Len(l) >= 4 /\ SubSeq(l, 1, 4) = <<" ", " ", "-", " ">>
PrintedPaths ==
    LET pl == SelectSeq(stdout, IsPathLine) IN
    [i \in 1..Len(pl) |-> SubSeq(pl[i], 5, Len(pl[i]))]

IsErrorLine(l) == l # <<>> /\ l[1] \in {"Error: ", "Error: Git command failed: "}

\* The run ended in one of the except clauses of main.
UnexpectedError == pc = "done" /\ \E i \in 1..Len(stderr) : IsErrorLine(stderr[i])

DiffCalled == \E i \in 1..Len(calls) : calls[i][2] = "diff"

Blank(text) == \A i \in 1..Len(text) : text[i] \in {" ", "\n"}

----------------------------------------------------------------------------
(* Properties *)

C2_NoUnhandledException ==
    (pc = "done" /\ termination \notin {"return", "sysexit"}) =>
        /\ termination = "abort"
        /\ \E i \in 1..Len(stderr) : IsErrorLine(stderr[i])

\* C3: in a repository, when a reference does not resolve the exit status is 1
\* and the comparison is never run; base is verified before head, an
\* unresolved base is the reference the error names and head is then never
\* verified.
C3_BaseCheckedFirst ==
    /\ Len(calls) >= 2 => calls[2] = <<"git", "rev-parse", "--verify", base_ref>>
    /\ Len(calls) >= 3 => calls[3] = <<"git", "rev-parse", "--verify", head_ref>>
    /\ (pc = "done" /\ inRepo /\ (base_ref \notin validRefs \/ head_ref \notin validRefs)) =>
          /\ exitStatus = 1
          /\ ~DiffCalled
    /\ (pc = "done" /\ inRepo /\ base_ref \notin validRefs) =>
          /\ Len(calls) <= 2
          /\ termination = "sysexit" =>
                stderr = << <<"Error: Invalid git reference '", base_ref, "'">> >>
    /\ (pc = "done" /\ inRepo /\ base_ref \in validRefs /\ head_ref \notin validRefs
            /\ termination = "sysexit") =>
          stderr = << <<"Error: Invalid git reference '", head_ref, "'">> >>

C3_Witness ==
    /\ pc = "done" /\ inRepo /\ termination = "sysexit"
    /\ validRefs = {}
    /\ base_ref # head_ref

\* C4: when is_git_repo returns false, main prints the environment error to
\* stderr and exits with status 1 whatever the arguments are, and no other
\* command (reference verification, comparison) is ever run.
C4_NotARepository ==
    /\ ~inRepo => Len(calls) <= 1
    /\ (pc = "done" /\ ~inRepo /\ termination # "crash") =>
          /\ stderr = << <<"Error: Not a git repository">> >>
          /\ stdout = <<>>
          /\ exitStatus = 1
          /\ calls = << <<"git", "rev-parse", "--git-dir">> >>

C4_Witness ==
    /\ pc = "done" /\ ~inRepo /\ termination = "sysexit"
    /\ validRefs = Refs /\ Truthy(pattern) /\ Truthy(output)

\* C5 (as stated): when --output is given and get_changed_files succeeds, the
\* output file exists after the run and its lines are the printed paths.
C5_RoundTripAlways ==
    (pc = "done" /\ output # <<>> /\ changed_files # <<>>) =>
        /\ fs.file # <<>>
        /\ splitlines(fs.file[1]) = PrintedPaths

\* C5 (amended): when --output is given with a non-empty path,
\* get_changed_files returns at least one path and the run ends without an
\* error, the output file exists, ends with a newline, and its lines are the
\* printed paths in the same order, whatever the file held before.
C5_RoundTrip ==
    (pc = "done" /\ Truthy(output) /\ changed_files # <<>> /\ changed_files[1] # <<>>
        /\ ~UnexpectedError) =>
        /\ fs.dirs
        /\ fs.file # <<>>
        /\ fs.file[1][Len(fs.file[1])] = "\n"
        /\ splitlines(fs.file[1]) = PrintedPaths
        /\ Len(PrintedPaths) = Len(changed_files[1])

C5_Witness ==
    /\ pc = "done" /\ Truthy(output) /\ termination = "return"
    /\ fs.file # <<>>
    /\ Len(PrintedPaths) = 2
    /\ PrintedPaths[1] # PrintedPaths[2]

\* C6: every message of an error path is on stderr, and a failing run prints
\* nothing on stdout.
C6_ErrorsOnStderr ==
    /\ \A i \in 1..Len(stdout) :
          /\ ~IsErrorLine(stdout[i])
          /\ stdout[i] # <<"Error: Not a git repository">>
          /\ stdout[i] # HintLine
          /\ stdout[i] # <<>> => stdout[i][1] # "Error: Invalid git reference '"
    /\ (pc = "done" /\ exitStatus # 0) => stdout = <<>>

\* C7: when the comparison yields at least one path, the first line of stdout
\* is the count line, its number is the number of path lines, and the path
\* lines that follow it are the backend's non-blank lines, trimmed, each
\* behind the indent marker, in the backend's order.
C7_Listing ==
    (pc \in {"write", "done"} /\ result # <<>> /\ BackendPaths(result[1]) # <<>>) =>
        LET paths == BackendPaths(result[1])
            n == Len(PrintedPaths)
        IN  /\ n = Len(paths)
            /\ Len(stdout) >= n + 1
            /\ stdout[1] = <<"Found ", Digits[n + 1], " changed files:">>
            /\ \A i \in 1..n : stdout[i + 1] = <<" ", " ", "-", " ">> \o paths[i]

C7_Witness ==
    /\ pc = "done" /\ result # <<>>
    /\ Len(BackendPaths(result[1])) = 2
    /\ BackendPaths(result[1])[1] # BackendPaths(result[1])[2]
    /\ Len(PrintedPaths) = 2

\* C8: when the comparison succeeds with no path (no output, or blank lines
\* only), stdout is exactly the "No changes found" line and the exit status
\* is 0, with or without --pattern and --output.
C8_NoChanges ==
    (pc = "done" /\ result # <<>> /\ Blank(result[1])) =>
        /\ stdout = << <<"No changes found between the specified references.">> >>
        /\ stderr = <<>>
        /\ exitStatus = 0

C8_Witness ==
    /\ pc = "done" /\ result # <<>> /\ result[1] # <<>> /\ Blank(result[1])
    /\ Truthy(pattern) /\ Truthy(output)
    /\ exitStatus = 0

\* C9 (as stated): the comparison is run once; whenever --pattern has a
\* value, the empty string included, the command ends with "--" and the
\* pattern, otherwise it has no path restriction; the result is the backend's
\* lines, not filtered by the pattern.
C9_PatternAlwaysAppended ==
    DiffCalled =>
        /\ Len(calls) = 4
        /\ calls[4] = <<"git", "diff", "--name-only", base_ref, head_ref>>
                        \o (IF pattern # <<>> THEN <<"--", pattern[1]>> ELSE <<>>)
        /\ changed_files # <<>> => changed_files[1] = BackendPaths(result[1])

\* C9 (amended): the comparison is run once; when --pattern has a non-empty
\* value the command ends with "--" and the pattern; when it is absent or the
\* empty string the command has no path restriction; the result is the
\* backend's non-blank trimmed lines, not filtered by the pattern.
C9_PatternPassThrough ==
    DiffCalled =>
        /\ Len(calls) = 4
        /\ calls[4] = <<"git", "diff", "--name-only", base_ref, head_ref>>
                        \o (IF pattern \in {<<>>, <<"">>} THEN <<>> ELSE <<"--", pattern[1]>>)
        /\ changed_files # <<>> => changed_files[1] = BackendPaths(result[1])

C9_Witness ==
    /\ DiffCalled
    /\ pattern = <<"">>
    /\ changed_files # <<>> /\ changed_files[1] # <<>>

\* C10: the file system changes only in a run where --output is given, the
\* directory is a repository, both references resolve, and the comparison
\* has run and succeeded with at least one path; no other run creates a
\* directory or touches the file.
C10_WriteOnlyOnSuccess ==
    [][fs' # fs =>
          /\ Truthy(output)
          /\ inRepo /\ base_ref \in validRefs /\ head_ref \in validRefs
          /\ Len(calls) = 4 /\ DiffCalled
          /\ result # <<>> /\ BackendPaths(result[1]) # <<>>]_vars

C10_Witness ==
    /\ pc = "done" /\ termination = "return"
    /\ fs.file # <<>> /\ fs.file[1] # OldContent
    /\ Len(calls) = 4

====
